---- MODULE Spec2Model ----
(***************************************************************************)
(* Model of the x402 facilitator HTTP handlers (src/src/handlers.rs):      *)
(* get_supported, get_health, post_verify, post_settle and the mapping of  *)
(* FacilitatorLocalError to an HTTP response (IntoResponse).               *)
(*                                                                         *)
(* Every handler awaits one call of the Facilitator backend.  A request is *)
(* modelled in two steps around that await: the call (the handler is       *)
(* entered with a decoded body and invokes the backend) and the return     *)
(* (the backend's result is matched and the response is built).  Requests  *)
(* run as independent tasks, so calls and returns of different requests    *)
(* interleave freely.  The handlers keep no request identity, so the       *)
(* requests in flight and served form a bag.                               *)
(***************************************************************************)
EXTENDS Naturals, FiniteSets, Bags

\* Number of requests served in one behaviour.
MaxReqs == 2

None == "None"

\* Payer addresses (MixedAddress) and Option<MixedAddress>.
Payers == {"p1", "p2"}
OptPayers == Payers \cup {None}

\* Inner detail of a fault (the `..` / `_` fields) and decoding diagnostics.
Details == {"d1", "d2"}

\* Decoded request bodies of POST /verify and POST /settle.
Bodies == {"b1", "b2"}

\* StatusCode::OK and StatusCode::BAD_REQUEST.
OK == 200
BAD_REQUEST == 400

(***************************************************************************)
(* crate::chain::FacilitatorLocalError: the variants the exhaustive match  *)
(* of into_response lists, each with the fields the match binds.           *)
(***************************************************************************)
OptPayerTags == {"SchemeMismatch", "NetworkMismatch", "UnsupportedNetwork"}
PayerTags == {"ReceiverMismatch", "InvalidSignature", "InvalidTiming",
              "InsufficientValue", "InsufficientFunds"}
FaultTags == {"ContractCall", "InvalidAddress", "ClockError"}
DecodingTags == {"DecodingError"}

FacilitatorLocalError ==
    [tag : OptPayerTags, payer : OptPayers, detail : {None}]
    \cup [tag : PayerTags, payer : Payers, detail : {None}]
    \cup [tag : FaultTags, payer : {None}, detail : Details]
    \cup [tag : DecodingTags, payer : {None}, detail : Details]

(***************************************************************************)
(* crate::types::FacilitatorErrorReason, as constructed in handlers.rs.    *)
(***************************************************************************)
InvalidScheme == [code |-> "invalid_scheme", msg |-> None]
InvalidNetwork == [code |-> "invalid_network", msg |-> None]
InsufficientFunds == [code |-> "insufficient_funds", msg |-> None]
FreeForm(reason) == [code |-> "free_form", msg |-> reason]

FacilitatorErrorReason ==
    {InvalidScheme, InvalidNetwork, InsufficientFunds}
    \cup {FreeForm(d) : d \in Details}

NoReason == [code |-> None, msg |-> None]

\* VerifyResponse::invalid(payer, reason)
VerifyResponse_invalid(payer, reason) ==
    [kind |-> "VerifyResponse", isValid |-> FALSE, payer |-> payer,
     invalidReason |-> reason]

\* VerifyResponse::valid(payer)
VerifyResponse_valid(payer) ==
    [kind |-> "VerifyResponse", isValid |-> TRUE, payer |-> payer,
     invalidReason |-> NoReason]

\* ErrorResponse { error }
ErrorResponse(error) == [kind |-> "ErrorResponse", error |-> error]

\* An axum Response: status and JSON body.
Response(status, body) == [status |-> status, body |-> body]

\* fn invalid_schema(payer: Option<MixedAddress>) -> VerifyResponse
invalid_schema(payer) == VerifyResponse_invalid(payer, InvalidScheme)

\* let bad_request = (StatusCode::BAD_REQUEST, Json(ErrorResponse {..}))
bad_request == Response(BAD_REQUEST, ErrorResponse("Invalid request"))

\* Faulty variant: an infrastructure fault answered with 500.
arm_fault_500(error) == Response(500, ErrorResponse("Invalid request"))

\* Faulty variant: the fault's inner detail copied into the error body.
arm_fault_leak(error) == Response(BAD_REQUEST, ErrorResponse(error.detail))

\* Faulty variant: the network rejection built without the variant's payer.
arm_network_nopayer(error) ==
    Response(OK, VerifyResponse_invalid(None, InvalidNetwork))

\* Faulty variant: the funds rejection built with invalid_schema.
arm_funds_schema(error) == Response(OK, invalid_schema(error.payer))

\* Faulty variant: a decoding failure treated as a bad request.
arm_decoding_400(error) == bad_request

\* SchemeMismatch(payer, ..) => (OK, Json(invalid_schema(payer)))
arm_scheme(error) == Response(OK, invalid_schema(error.payer))

\* ReceiverMismatch(payer, ..) | InvalidSignature(payer, ..)
\* | InvalidTiming(payer, ..) | InsufficientValue(payer)
\*     => (OK, Json(invalid_schema(Some(payer))))
arm_rejected(error) == Response(OK, invalid_schema(error.payer))

\* NetworkMismatch(payer, ..) | UnsupportedNetwork(payer)
\*     => (OK, Json(VerifyResponse::invalid(payer, InvalidNetwork)))
arm_network(error) ==
    Response(OK, VerifyResponse_invalid(error.payer, InvalidNetwork))

\* ContractCall(..) | InvalidAddress(..) | ClockError(_) => bad_request
arm_fault(error) == bad_request

\* DecodingError(reason)
\*     => (OK, Json(VerifyResponse::invalid(None, FreeForm(reason))))
arm_decoding(error) ==
    Response(OK, VerifyResponse_invalid(None, FreeForm(error.detail)))

\* InsufficientFunds(payer)
\*     => (OK, Json(VerifyResponse::invalid(Some(payer), InsufficientFunds)))
arm_funds(error) ==
    Response(OK, VerifyResponse_invalid(error.payer, InsufficientFunds))

\* impl IntoResponse for FacilitatorLocalError: fn into_response(self)
into_response(error) ==
    CASE error.tag = "SchemeMismatch" -> arm_scheme(error)
      [] error.tag \in {"ReceiverMismatch", "InvalidSignature",
                        "InvalidTiming", "InsufficientValue"} ->
            arm_rejected(error)
      [] error.tag \in {"NetworkMismatch", "UnsupportedNetwork"} ->
            arm_network(error)
      [] error.tag \in {"ContractCall", "InvalidAddress", "ClockError"} ->
            arm_fault(error)
      [] error.tag = "DecodingError" -> arm_decoding(error)
      [] error.tag = "InsufficientFunds" -> arm_funds(error)

(***************************************************************************)
(* The Facilitator backend (trait crate::facilitator::Facilitator).  Its   *)
(* verify and settle return Ok(response) or Err(FacilitatorLocalError);    *)
(* which one is the backend's choice, so every result is possible at every *)
(* call, whatever the body.                                                *)
(***************************************************************************)
Ok(v) == [ok |-> TRUE, val |-> v]
Err(e) == [ok |-> FALSE, val |-> e]

\* SettleResponse (crate::types), returned by settle on Ok.
SettleResponse(success, errorReason, payer, transaction, network) ==
    [kind |-> "SettleResponse", success |-> success,
     errorReason |-> errorReason, payer |-> payer,
     transaction |-> transaction, network |-> network]

\* Results of facilitator.verify(&body).
VerifyResults ==
    {Ok(VerifyResponse_valid("p1")),
     Ok(VerifyResponse_invalid(None, InvalidNetwork))}
    \cup {Err(e) : e \in FacilitatorLocalError}

\* Results of facilitator.settle(&body).
SettleResults ==
    {Ok(SettleResponse(TRUE, NoReason, "p1", "tx1", "base")),
     Ok(SettleResponse(FALSE, InsufficientFunds, "p1", None, "base"))}
    \cup {Err(e) : e \in FacilitatorLocalError}

\* SupportedPaymentKindsResponse: the (scheme, network) pairs on offer.
SupportedKinds(kinds) == [kind |-> "Supported", kinds |-> kinds]

\* Results of facilitator.supported(): a function of the facilitator state.
SupportedResults ==
    {Ok(SupportedKinds({<<"exact", "base">>, <<"exact", "polygon">>})),
     Err([tag |-> "ContractCall", payer |-> None, detail |-> "d1"]),
     Err([tag |-> "UnsupportedNetwork", payer |-> None, detail |-> None])}

(***************************************************************************)
(* The handlers' match on the backend's result.                            *)
(***************************************************************************)
\* get_supported: match facilitator.supported().await
get_supported_response(result) ==
    IF result.ok THEN Response(OK, result.val) ELSE into_response(result.val)

\* Faulty variant: a health check that answers on its own.
get_health_static(result) == Response(OK, SupportedKinds({}))

\* get_health: get_supported(State(facilitator)).await
get_health_response(result) == get_supported_response(result)

\* Faulty variant: every Err of verify answered as a bad request.
post_verify_err400(result) ==
    IF result.ok THEN Response(OK, result.val) ELSE bad_request

\* post_verify: match facilitator.verify(&body).await
post_verify_response(result) ==
    IF result.ok THEN Response(OK, result.val) ELSE into_response(result.val)

\* post_settle: match facilitator.settle(&body).await
post_settle_response(result) ==
    IF result.ok THEN Response(OK, result.val) ELSE into_response(result.val)

\* tracing::warn!(error = ?error, body = %to_string(&body), "...")
warn(msg, error, body) == [msg |-> msg, error |-> error, body |-> body]

(***************************************************************************)
(* State.                                                                  *)
(***************************************************************************)
VARIABLES
    fac,             \* the facilitator state: what supported() answers
    reqs,            \* bag of requests: position, endpoint, body, result, response
    verifyCalls,     \* calls of facilitator.verify, per body
    settleCalls,     \* calls of facilitator.settle, per body
    supportedCalls,  \* calls of facilitator.supported
    log              \* bag of events written to the server-side log

vars == <<fac, reqs, verifyCalls, settleCalls, supportedCalls, log>>

Null == [kind |-> None]
NoResult == [ok |-> FALSE, val |-> Null]

Init ==
    /\ fac \in SupportedResults
    /\ reqs = EmptyBag
    /\ verifyCalls = [b \in Bodies |-> 0]
    /\ settleCalls = [b \in Bodies |-> 0]
    /\ supportedCalls = 0
    /\ log = EmptyBag

\* A request whose handler awaits the backend.
Awaiting(endpoint, body) ==
    [pc |-> "awaiting", endpoint |-> endpoint, body |-> body,
     result |-> NoResult, response |-> Response(0, Null)]

\* A request whose handler has returned its response.
Done(req, result, response) ==
    [req EXCEPT !.pc = "done", !.result = result, !.response = response]

Enter(req) == reqs (+) SetToBag({req})
Finish(req, done) == (reqs (-) SetToBag({req})) (+) SetToBag({done})

AwaitingAt(endpoint) ==
    {q \in BagToSet(reqs) : q.pc = "awaiting" /\ q.endpoint = endpoint}

\* GET /supported enters get_supported, which calls facilitator.supported().
get_supported_call ==
    /\ BagCardinality(reqs) < MaxReqs
    /\ reqs' = Enter(Awaiting("GET /supported", None))
    /\ supportedCalls' = supportedCalls + 1
    /\ UNCHANGED <<fac, verifyCalls, settleCalls, log>>

\* facilitator.supported() returns; get_supported builds the response.
get_supported_return ==
    \E q \in AwaitingAt("GET /supported") :
        /\ reqs' = Finish(q, Done(q, fac, get_supported_response(fac)))
        /\ UNCHANGED <<fac, verifyCalls, settleCalls, supportedCalls, log>>

\* GET /health enters get_health, which calls get_supported.
get_health_call ==
    /\ BagCardinality(reqs) < MaxReqs
    /\ reqs' = Enter(Awaiting("GET /health", None))
    /\ supportedCalls' = supportedCalls + 1
    /\ UNCHANGED <<fac, verifyCalls, settleCalls, log>>

\* get_supported returns to get_health, which returns its response.
get_health_return ==
    \E q \in AwaitingAt("GET /health") :
        /\ reqs' = Finish(q, Done(q, fac, get_health_response(fac)))
        /\ UNCHANGED <<fac, verifyCalls, settleCalls, supportedCalls, log>>

\* POST /verify with a decoded body enters post_verify, which calls verify.
post_verify_call(body) ==
    /\ BagCardinality(reqs) < MaxReqs
    /\ reqs' = Enter(Awaiting("POST /verify", body))
    /\ verifyCalls' = [verifyCalls EXCEPT ![body] = @ + 1]
    /\ UNCHANGED <<fac, settleCalls, supportedCalls, log>>

\* facilitator.verify returns; post_verify logs an Err and builds the response.
post_verify_return ==
    \E q \in AwaitingAt("POST /verify") :
        \E result \in VerifyResults :
            /\ reqs' = Finish(q, Done(q, result, post_verify_response(result)))
            /\ log' = IF result.ok THEN log
                      ELSE log (+) SetToBag({warn("Verification failed",
                                                  result.val, q.body)})
            /\ UNCHANGED <<fac, verifyCalls, settleCalls, supportedCalls>>

\* Faulty variant: post_settle verifies the payload before it settles it.
post_settle_reverify(body) ==
    /\ BagCardinality(reqs) < MaxReqs
    /\ reqs' = Enter(Awaiting("POST /settle", body))
    /\ settleCalls' = [settleCalls EXCEPT ![body] = @ + 1]
    /\ verifyCalls' = [verifyCalls EXCEPT ![body] = @ + 1]
    /\ UNCHANGED <<fac, supportedCalls, log>>

\* POST /settle with a decoded body enters post_settle, which calls settle.
post_settle_call(body) ==
    /\ BagCardinality(reqs) < MaxReqs
    /\ reqs' = Enter(Awaiting("POST /settle", body))
    /\ settleCalls' = [settleCalls EXCEPT ![body] = @ + 1]
    /\ UNCHANGED <<fac, verifyCalls, supportedCalls, log>>

\* facilitator.settle returns; post_settle logs an Err and builds the response.
post_settle_return ==
    \E q \in AwaitingAt("POST /settle") :
        \E result \in SettleResults :
            /\ reqs' = Finish(q, Done(q, result, post_settle_response(result)))
            /\ log' = IF result.ok THEN log
                      ELSE log (+) SetToBag({warn("Settlement failed",
                                                  result.val, q.body)})
            /\ UNCHANGED <<fac, verifyCalls, settleCalls, supportedCalls>>

Next ==
    \/ get_supported_call
    \/ get_supported_return
    \/ get_health_call
    \/ get_health_return
    \/ \E body \in Bodies : post_verify_call(body)
    \/ post_verify_return
    \/ \E body \in Bodies : post_settle_call(body)
    \/ post_settle_return

Spec == Init /\ [][Next]_vars

(***************************************************************************)
(* Properties.                                                             *)
(***************************************************************************)
Served == {q \in BagToSet(reqs) : q.pc = "done"}
ServedAt(endpoint) == {q \in Served : q.endpoint = endpoint}
ServedPost == ServedAt("POST /verify") \cup ServedAt("POST /settle")

\* Served requests whose backend call returned Err(variant).
ServedErr == {q \in Served : ~q.result.ok}
ServedErrOf(tags) == {q \in ServedErr : q.result.val.tag \in tags}

\* HTTP 200 carrying a VerifyResponse with is_valid=false and a reason.
InvalidWithReason(response) ==
    /\ response.status = OK
    /\ response.body.kind = "VerifyResponse"
    /\ response.body.isValid = FALSE
    /\ response.body.invalidReason \in FacilitatorErrorReason

\* HTTP 400 carrying the generic error body.
GenericFault(response) ==
    /\ response.status = BAD_REQUEST
    /\ response.body = ErrorResponse("Invalid request")

\* Number of requests, awaiting or served, that entered the endpoint with the body.
Entered(endpoint, body) ==
    BagCardinality([q \in {x \in BagToSet(reqs) :
                             x.endpoint = endpoint /\ x.body = body}
                    |-> reqs[q]])

\* C1: whatever variant of FacilitatorLocalError a backend call returns, the
\* response is either 200 invalid-with-reason or the 400 generic fault, never
\* both, never another status and never is_valid=true.
C1_TwoOutcomes ==
    \A q \in ServedErr :
        /\ InvalidWithReason(q.response) \/ GenericFault(q.response)
        /\ ~(InvalidWithReason(q.response) /\ GenericFault(q.response))
        /\ q.response.status \in {OK, BAD_REQUEST}

C1_Witness ==
    /\ \E q \in ServedErr : InvalidWithReason(q.response)
    /\ \E q \in ServedErr : GenericFault(q.response)

\* C2: POST /verify and POST /settle answer 400 exactly when the backend
\* returned ContractCall, InvalidAddress or ClockError, and 200 otherwise.
C2_StatusSeparates ==
    \A q \in ServedPost :
        LET fault == ~q.result.ok /\ q.result.val.tag \in FaultTags
        IN  /\ (q.response.status = BAD_REQUEST) <=> fault
            /\ ~fault => q.response.status = OK

C2_Witness ==
    /\ \E q \in ServedAt("POST /verify") :
           ~q.result.ok /\ q.result.val.tag = "DecodingError"
    /\ \E q \in ServedAt("POST /settle") :
           ~q.result.ok /\ q.result.val.tag = "ClockError"

\* C3: a semantic rejection answers 200, is_valid=false, with its own reason
\* code: invalid_scheme for SchemeMismatch, and for ReceiverMismatch,
\* InvalidSignature, InvalidTiming and InsufficientValue a code that is not
\* the code of another rejection (invalid_scheme, invalid_network,
\* insufficient_funds).
C3_SpecificReason ==
    \A q \in ServedErrOf({"SchemeMismatch", "ReceiverMismatch",
                          "InvalidSignature", "InvalidTiming",
                          "InsufficientValue"}) :
        /\ InvalidWithReason(q.response)
        /\ q.result.val.tag = "SchemeMismatch"
               => q.response.body.invalidReason = InvalidScheme
        /\ q.result.val.tag # "SchemeMismatch"
               => q.response.body.invalidReason
                      \notin {InvalidScheme, InvalidNetwork, InsufficientFunds}

\* C4: NetworkMismatch and UnsupportedNetwork, and no other variant, answer
\* 200, is_valid=false, reason invalid_network, with the variant's payer.
C4_InvalidNetwork ==
    \A q \in ServedErr :
        IF q.result.val.tag \in {"NetworkMismatch", "UnsupportedNetwork"}
        THEN q.response =
                 Response(OK, VerifyResponse_invalid(q.result.val.payer,
                                                     InvalidNetwork))
        ELSE ~(/\ q.response.status = OK
               /\ q.response.body.invalidReason = InvalidNetwork)

C4_Witness ==
    /\ \E q \in ServedErrOf({"NetworkMismatch"}) : q.result.val.payer \in Payers
    /\ \E q \in ServedErrOf({"UnsupportedNetwork"}) : TRUE

\* C5: InsufficientFunds(payer), and no other variant, answers 200,
\* is_valid=false, reason insufficient_funds, with the variant's payer.
C5_InsufficientFunds ==
    \A q \in ServedErr :
        IF q.result.val.tag = "InsufficientFunds"
        THEN q.response =
                 Response(OK, VerifyResponse_invalid(q.result.val.payer,
                                                     InsufficientFunds))
        ELSE ~(/\ q.response.status = OK
               /\ q.response.body.invalidReason = InsufficientFunds)

C5_Witness ==
    /\ \E q \in ServedErrOf({"InsufficientFunds"}) : TRUE
    /\ \E q \in ServedErrOf({"InsufficientValue"}) : TRUE

\* C6: DecodingError(msg) answers 200, never 400, with is_valid=false, no
\* payer and reason free_form(msg), msg being the variant's message.
C6_DecodingFreeForm ==
    \A q \in ServedErrOf({"DecodingError"}) :
        /\ q.response.status = OK
        /\ q.response.body.kind = "VerifyResponse"
        /\ q.response.body.isValid = FALSE
        /\ q.response.body.payer = None
        /\ q.response.body.invalidReason.code = "free_form"
        /\ q.response.body.invalidReason.msg = q.result.val.detail

C6_Witness ==
    \E q1, q2 \in ServedErrOf({"DecodingError"}) :
        q1.result.val.detail # q2.result.val.detail

\* C7: any two infrastructure faults, whatever their inner detail and
\* whatever the request body, get the same response, the constant 400 body
\* {"error": "Invalid request"}.
C7_FaultBodyConstant ==
    \A q1, q2 \in ServedErrOf(FaultTags) :
        /\ q1.response = q2.response
        /\ q1.response.status = BAD_REQUEST
        /\ q1.response.body = [kind |-> "ErrorResponse",
                               error |-> "Invalid request"]

C7_Witness ==
    \E q1, q2 \in ServedErrOf(FaultTags) :
        /\ q1.result.val.tag # q2.result.val.tag
        /\ q1.result.val.detail # q2.result.val.detail
        /\ q1.body \in Bodies /\ q2.body \in Bodies /\ q1.body # q2.body
        /\ \E event \in BagToSet(log) :
               event.error = q1.result.val /\ event.body = q1.body

\* C8: in one facilitator state GET /health and GET /supported answer the
\* same status and body, on success (200 with the capability list) and on
\* failure (the error's response), and each of them calls supported() once.
C8_HealthIsSupported ==
    /\ \A h \in ServedAt("GET /health"), g \in ServedAt("GET /supported") :
           h.response = g.response
    /\ \A h \in ServedAt("GET /health") :
           /\ h.result = fac
           /\ fac.ok => h.response = Response(OK, fac.val)
           /\ ~fac.ok => h.response = into_response(fac.val)
    /\ supportedCalls
           = Entered("GET /health", None) + Entered("GET /supported", None)

C8_Witness ==
    /\ ~fac.ok
    /\ ServedAt("GET /health") # {}
    /\ ServedAt("GET /supported") # {}

C8_WitnessOk ==
    /\ fac.ok
    /\ ServedAt("GET /health") # {}
    /\ ServedAt("GET /supported") # {}

\* C9: every 200 response of POST /settle carries a SettleOutcome body, and
\* every other response of POST /settle is the 400 generic fault.
C9_SettleBody ==
    \A q \in ServedAt("POST /settle") :
        IF q.response.status = OK
        THEN q.response.body.kind = "SettleResponse"
        ELSE GenericFault(q.response)

\* C10: every POST /verify request accounts for one call of verify and none
\* of settle, every POST /settle request for one call of settle and none of
\* verify (so N requests with one payload make N calls), and a served
\* request is final: its outcome never changes and no step that serves a
\* request calls the backend.
C10_CallsMatchRequests ==
    \A b \in Bodies :
        /\ verifyCalls[b] = Entered("POST /verify", b)
        /\ settleCalls[b] = Entered("POST /settle", b)

C10_Terminal ==
    /\ \A q \in Served : CopiesIn(q, reqs') >= CopiesIn(q, reqs)
    /\ BagCardinality(reqs') = BagCardinality(reqs)
           => UNCHANGED <<verifyCalls, settleCalls, supportedCalls>>

C10_OneCallNoRetry == [](C10_CallsMatchRequests) /\ [][C10_Terminal]_vars

C10_Witness ==
    \E b \in Bodies :
        /\ verifyCalls[b] = 2
        /\ \E q \in ServedAt("POST /verify") : q.body = b /\ reqs[q] = 2

====
